---- MODULE Spec2Model ----
(***************************************************************************)
(* Media scraper: the scraping queue (MediaService.queueScraping), the     *)
(* worker (ScrapingProcessor.process), the fetcher (ScraperService         *)
(* .scrapeUrl) and the media table the worker writes to.                   *)
(***************************************************************************)
EXTENDS Integers, Sequences, FiniteSets, TLC

(***************************************************************************)
(* Bounds of the model.                                                    *)
(***************************************************************************)
\* jobs ever enqueued
MaxJobs == 3
\* urls in one POST /scrape body
MaxUrls == 2
\* POST /scrape requests whose response is followed
MaxRequests == 2
\* rows of the media table a query runs against
MaxRows == 25
\* pages a client asks for
MaxPage == 3
\* rows one createMany writes with the same createdAt
BatchSize == 3
\* QUEUE_CONFIG.SCRAPING.REMOVE_ON_FAIL is 100 in the source; the failed set
\* is scaled down so that it overflows within MaxJobs.
REMOVE_ON_FAIL == 1
\* GET requests followed
MaxReads == 2
\* jobs added while GET requests are followed
MaxReadJobs == 1
\* QUEUE_CONFIG.SCRAPING.CONCURRENCY is 50 in the source; the pool is scaled
\* down so that more jobs than workers can be queued within MaxJobs.
CONCURRENCY == 2

(***************************************************************************)
(* Program constants.                                                      *)
(***************************************************************************)
ATTEMPTS == 2
REMOVE_ON_COMPLETE == TRUE

Range(s) == {s[k] : k \in DOMAIN s}

(***************************************************************************)
(* The pages of the model.  What extraction yields for a fetched page is   *)
(* an input of the queue: u1 repeats one mediaUrl inside a single batch,   *)
(* u2 shares that mediaUrl with u1 under another title and adds a video;   *)
(* a body "empty" is a page without qualifying media.                      *)
(***************************************************************************)
URLs == {"u1", "u2"}

ScrapedMedia(url, type, alt, title) ==
    [url |-> url, type |-> type, alt |-> alt, title |-> title]

Extract(url, body) ==
    CASE body = "empty" -> << >>
      [] url = "u1" -> << ScrapedMedia("m1", "image", "cat", "A"),
                          ScrapedMedia("m1", "image", "cat", "A") >>
      [] OTHER      -> << ScrapedMedia("m1", "image", "", "B"),
                          ScrapedMedia("m2", "video", "", "V") >>

(***************************************************************************)
(* ScraperService.scrapeUrl.  A response of axios.get is a timeout, a      *)
(* network error, or an HTTP response with a status and a body; the body   *)
(* parses ("html", "empty") or makes parsing/extraction raise ("throws").   *)
(***************************************************************************)
Statuses == {100, 199, 200, 201, 204, 206, 301, 302, 304, 399,
             400, 401, 403, 404, 410, 429, 500, 502, 503, 599}

Responses ==
    {[kind |-> k, status |-> 0, body |-> "none"] : k \in {"timeout", "network"}}
    \cup {[kind |-> "http", status |-> s, body |-> b] :
            s \in Statuses, b \in {"html", "empty", "throws"}}

validateStatus(status) == status >= 200 /\ status < 400

Return(v, log) == [tag |-> "return", value |-> v, log |-> log]
Throw(e)       == [tag |-> "throw", value |-> << >>, log |-> e]

\* the try block of scrapeUrl: axios.get, cheerio.load, the three passes
scrapeTry(url, resp) ==
    IF resp.kind # "http" THEN Throw(resp.kind)
    ELSE IF ~validateStatus(resp.status) THEN Throw("status")
    ELSE IF resp.body = "throws" THEN Throw("parse")
    ELSE Return(Extract(url, resp.body), "debug")

\* a scrapeUrl that lets the error of the try block escape
scrapeUrlNoCatch(url, resp) == scrapeTry(url, resp)

scrapeUrl(url, resp) ==
    LET r == scrapeTry(url, resp)
    IN  IF r.tag = "throw" THEN Return(<< >>, "warn") ELSE r

(***************************************************************************)
(* The media table.  Rows are kept in insertion order; the position of a   *)
(* row is its id.  mediaUrl carries the unique constraint.                 *)
(***************************************************************************)
\* a constraint that is unique per (mediaUrl, sourceUrl)
UniqueKeyPerSource(row) == <<row.mediaUrl, row.sourceUrl>>

UniqueKey(row) == row.mediaUrl

Conflicts(rows, row) == \E k \in DOMAIN rows : UniqueKey(rows[k]) = UniqueKey(row)

\* an upsert: the row in conflict takes the fields of the new row
InsertUpsert(rows, row) ==
    IF Conflicts(rows, row)
    THEN [k \in DOMAIN rows |->
            IF UniqueKey(rows[k]) = UniqueKey(row) THEN row ELSE rows[k]]
    ELSE Append(rows, row)

\* a plain INSERT, without skipDuplicates
InsertAlways(rows, row) == Append(rows, row)

\* one row of INSERT ... ON CONFLICT DO NOTHING (createMany, skipDuplicates)
InsertSkipDuplicate(rows, row) ==
    IF Conflicts(rows, row) THEN rows ELSE Append(rows, row)

\* the map of process(): scraped item -> row to create
ToCreate(url, item) ==
    [sourceUrl |-> url, mediaUrl |-> item.url, type |-> item.type,
     alt |-> IF item.alt = "" THEN "null" ELSE item.alt,
     title |-> IF item.title = "" THEN "null" ELSE item.title]

(***************************************************************************)
(* State.                                                                  *)
(***************************************************************************)
VARIABLES
    jobs,       \* every job ever added, by job id (position)
    wait,       \* the wait list of the queue: job ids, oldest first
    store,      \* the media table
    requests,   \* POST /scrape requests: urls, jobs added, response
    call,       \* the last call of a pure function, with its result
    cache,      \* the response cache of the GET endpoints, by key
    reads,      \* GET requests the cache interceptor has taken
    submissions, \* the submissions of the scraper page of the frontend
    failed      \* the failed set of the queue: job ids, oldest first

vars == <<jobs, wait, store, requests, call, cache, reads, submissions, failed>>

NoCall == [fn |-> "none"]
NoResponse == [message |-> "", jobCount |-> -1]

\* the keys of the cached endpoints the invalidation names
CacheKeys == {"/stats", "/media?page=1&limit=20"}

NoEntry == [present |-> FALSE]

EmptyCache == [key \in CacheKeys |-> NoEntry]

JobIds == DOMAIN jobs

Active == {i \in JobIds : jobs[i].state = "active"}

NewJob(url) ==
    [url |-> url, state |-> "wait", attemptsMade |-> 0,
     pc |-> "idle", mediaToCreate |-> << >>, fetch |-> "none",
     opts |-> [removeOnComplete |-> REMOVE_ON_COMPLETE,
               removeOnFail |-> REMOVE_ON_FAIL, attempts |-> ATTEMPTS]]

Init ==
    /\ jobs = << >>
    /\ wait = << >>
    /\ store = << >>
    /\ requests = << >>
    /\ call = NoCall
    /\ cache = EmptyCache
    /\ reads = << >>
    /\ submissions = << >>
    /\ failed = << >>


(***************************************************************************)
(* MediaService.queueScraping and MediaController.scrapeUrls.              *)
(***************************************************************************)
\* a job list that keeps one job per distinct url
BuildJobsDistinct(urls) ==
    LET keep == {k \in DOMAIN urls : \A h \in 1..(k - 1) : urls[h] # urls[k]}
        pick[n \in 0..Len(urls)] ==
            IF n = 0 THEN << >>
            ELSE IF n \in keep THEN Append(pick[n - 1], NewJob(urls[n]))
            ELSE pick[n - 1]
    IN  pick[Len(urls)]

\* urls.map(url => ({ name, data: { url }, opts }))
BuildJobs(urls) == [k \in DOMAIN urls |-> NewJob(urls[k])]

\* the value queueScraping returns
QueuedResponse(urls) ==
    [message |-> "URLs queued for scraping", jobCount |-> Len(urls)]

UrlLists == UNION {[1..n -> URLs] : n \in 0..MaxUrls}

\* addBulk(jobs): the jobs are in the queue, oldest first
AddBulk(added) ==
    /\ jobs' = jobs \o added
    /\ wait' = wait \o [k \in 1..Len(added) |-> Len(jobs) + k]

\* queueScraping as one step, its response not followed
QueueScraping(urls) ==
    /\ Len(jobs) + Len(urls) <= MaxJobs
    /\ AddBulk(BuildJobs(urls))
    /\ UNCHANGED <<store, requests, call, cache, reads, submissions, failed>>

\* queueScraping up to the resolution of addBulk, its response followed
QueueScrapingAddBulk(urls) ==
    /\ Len(requests) < MaxRequests
    /\ Len(jobs) + Len(urls) <= MaxJobs
    /\ AddBulk(BuildJobs(urls))
    /\ requests' = Append(requests,
           [urls |-> urls, first |-> Len(jobs) + 1,
            added |-> Len(BuildJobs(urls)), response |-> NoResponse])
    /\ UNCHANGED <<store, call, cache, reads, submissions, failed>>

\* the jobs a request added
JobsOf(q) ==
    {i \in JobIds : requests[q].first <= i
                    /\ i < requests[q].first + requests[q].added}

\* a return that waits until the jobs of the request have finished
QueueScrapingReturnAwait(q) ==
    /\ q \in DOMAIN requests
    /\ requests[q].response = NoResponse
    /\ \A i \in JobsOf(q) : jobs[i].state \in {"completed", "failed"}
    /\ requests' = [requests EXCEPT
                      ![q].response = QueuedResponse(requests[q].urls)]
    /\ UNCHANGED <<jobs, wait, store, call, cache, reads, submissions, failed>>

\* queueScraping returns and the controller sends the response
QueueScrapingReturn(q) ==
    /\ q \in DOMAIN requests
    /\ requests[q].response = NoResponse
    /\ requests' = [requests EXCEPT
                      ![q].response = QueuedResponse(requests[q].urls)]
    /\ UNCHANGED <<jobs, wait, store, call, cache, reads, submissions, failed>>

(***************************************************************************)
(* The worker: dispatch under the concurrency option, retry under the      *)
(* attempts option, and ScrapingProcessor.process step by step (one step   *)
(* per await).                                                             *)
(***************************************************************************)
\* a slot test with its comparison reversed
HasFreeSlotReversed == Cardinality(Active) > CONCURRENCY

\* a pool that admits one job too many
HasFreeSlotOffByOne == Cardinality(Active) <= CONCURRENCY

HasFreeSlot == Cardinality(Active) < CONCURRENCY

\* a retry test that allows one attempt too many
ShouldRetryOffByOne(job) == job.attemptsMade <= job.opts.attempts

ShouldRetry(job) == job.attemptsMade < job.opts.attempts

Idle(job) == [job EXCEPT !.pc = "idle", !.mediaToCreate = << >>]

\* the job after process() resolved.  removeOnComplete deletes the record of
\* a completed job; what stays here is the outcome of its last fetch.
Completed(job) ==
    [Idle(job) EXCEPT !.state = "completed", !.attemptsMade = 0, !.url = "removed"]

\* the job after process() rejected
Failed(job, reason) ==
    [Idle(job) EXCEPT !.state = IF ShouldRetry(job) THEN "wait" ELSE "failed"]

\* a catch block that logs and swallows the error
processCatchSwallow(reason) == [rethrow |-> FALSE, reason |-> reason]

\* the catch block of process(): log, then throw error
processCatch(reason) == [rethrow |-> TRUE, reason |-> reason]

\* a rejection that takes the other jobs in flight down with it
RejectedAbortsPool(i, reason) ==
    /\ jobs' = [k \in DOMAIN jobs |->
                  IF jobs[k].state = "active"
                  THEN [Idle(jobs[k]) EXCEPT !.state = "failed"]
                  ELSE jobs[k]]
    /\ wait' = wait
    /\ failed' = failed

\* a failed set that is never trimmed
KeepAll(ids, n) == ids

\* removeOnFail: n keeps the n most recent jobs of the failed set
KeepLast(ids, n) ==
    IF Len(ids) <= n THEN ids ELSE SubSeq(ids, Len(ids) - n + 1, Len(ids))

\* the job, the wait list and the failed set after an exception inside the
\* try of process()
Rejected(i, reason) ==
    LET c == processCatch(reason)
        j == IF c.rethrow THEN Failed(jobs[i], c.reason) ELSE Completed(jobs[i])
    IN  /\ jobs' = [jobs EXCEPT ![i] = j]
        /\ wait' = IF j.state = "wait" THEN Append(wait, i) ELSE wait
        /\ failed' = IF j.state = "failed"
                     THEN KeepLast(Append(failed, i), j.opts.removeOnFail)
                     ELSE failed

Dispatch ==
    /\ wait # << >>
    /\ HasFreeSlot
    /\ LET i == Head(wait)
       IN  jobs' = [jobs EXCEPT ![i] =
                      [@ EXCEPT !.state = "active", !.pc = "scrape",
                                !.attemptsMade = @ + 1, !.fetch = "none"]]
    /\ wait' = Tail(wait)
    /\ UNCHANGED <<store, requests, call, cache, reads, submissions, failed>>

\* a guard that also writes an empty batch
HasMediaAlways(mediaToCreate) == Len(mediaToCreate) >= 0

HasMedia(mediaToCreate) == Len(mediaToCreate) > 0

\* what the fetch of an attempt came to: the page, a page without media, or
\* no page at all (timeout, network error, rejected status, parse error)
FetchOutcome(resp) ==
    IF resp.kind # "http" \/ resp.status < 200 \/ resp.status > 399
       \/ resp.body = "throws"
    THEN "failed"
    ELSE IF resp.body = "empty" THEN "empty" ELSE "ok"

\* the responses the jobs of the queue model see
JobResponses ==
    {r \in Responses : /\ r.kind # "network"
                       /\ r.kind = "http" => /\ r.status = 200
                                             /\ r.body # "throws"}

\* await scrapeUrl(url), the map, and the branch on mediaToCreate.length
ProcessScrape(i, resp) ==
    /\ i \in JobIds
    /\ jobs[i].state = "active"
    /\ jobs[i].pc = "scrape"
    /\ LET r == scrapeUrl(jobs[i].url, resp)
           mediaToCreate == [k \in DOMAIN r.value |-> ToCreate(jobs[i].url, r.value[k])]
           j == [jobs[i] EXCEPT !.fetch = FetchOutcome(resp)]
       IN  IF r.tag = "throw"
           THEN Rejected(i, resp.kind)
           ELSE IF HasMedia(mediaToCreate)
           THEN /\ jobs' = [jobs EXCEPT ![i] =
                              [j EXCEPT !.pc = "insert",
                                        !.mediaToCreate = mediaToCreate]]
                /\ wait' = wait
                /\ failed' = failed
           ELSE /\ jobs' = [jobs EXCEPT ![i] = Completed(j)]
                /\ wait' = wait
                /\ failed' = failed
    /\ UNCHANGED <<store, requests, call, cache, reads, submissions>>

RECURSIVE createMany(_, _)
\* prisma.media.createMany({ data, skipDuplicates: true }) as one statement
createMany(rows, data) ==
    IF data = << >> THEN rows
    ELSE createMany(InsertSkipDuplicate(rows, Head(data)), Tail(data))

\* createMany resolves
ProcessInsert(i) ==
    /\ i \in JobIds
    /\ jobs[i].state = "active"
    /\ jobs[i].pc = "insert"
    /\ store' = createMany(store, jobs[i].mediaToCreate)
    /\ jobs' = [jobs EXCEPT ![i] = [@ EXCEPT !.pc = "invalidate"]]
    /\ UNCHANGED <<wait, requests, call, cache, reads, submissions, failed>>

\* createMany rejects: the store is unavailable, nothing is written
ProcessInsertThrows(i) ==
    /\ i \in JobIds
    /\ jobs[i].state = "active"
    /\ jobs[i].pc = "insert"
    /\ Rejected(i, "db")
    /\ UNCHANGED <<store, requests, call, cache, reads, submissions>>

\* MediaService.invalidateCache: the entries of /stats and of the common
\* /media queries are deleted
invalidateCache(entries) == [key \in DOMAIN entries |-> NoEntry]

\* await this.mediaService.invalidateCache() resolves; process() returns
ProcessInvalidateCache(i) ==
    /\ i \in JobIds
    /\ jobs[i].state = "active"
    /\ jobs[i].pc = "invalidate"
    /\ jobs' = [jobs EXCEPT ![i] = Completed(@)]
    /\ cache' = invalidateCache(cache)
    /\ UNCHANGED <<wait, store, requests, call, reads, submissions, failed>>

\* await this.mediaService.invalidateCache() rejects inside the try block
ProcessInvalidateCacheThrows(i) ==
    /\ i \in JobIds
    /\ jobs[i].state = "active"
    /\ jobs[i].pc = "invalidate"
    /\ Rejected(i, "cache")
    /\ UNCHANGED <<store, requests, call, cache, reads, submissions>>

\* a step of the worker
Worker ==
    \/ Dispatch
    \/ \E i \in 1..MaxJobs, resp \in JobResponses : ProcessScrape(i, resp)
    \/ \E i \in 1..MaxJobs : ProcessInsert(i)
    \/ \E i \in 1..MaxJobs : ProcessInsertThrows(i)
    \/ \E i \in 1..MaxJobs : ProcessInvalidateCache(i)
    \/ \E i \in 1..MaxJobs : ProcessInvalidateCacheThrows(i)

Next ==
    \/ \E urls \in UrlLists : QueueScraping(urls)
    \/ Worker

Spec == Init /\ [][Next]_vars

\* the worker takes a waiting job whenever a slot is free, and every await
\* of process() settles (axios gives up after SCRAPER.TIMEOUT)
SpecFair == Spec /\ WF_vars(Worker)

(***************************************************************************)
(* The queue with the responses of POST /scrape followed.                  *)
(***************************************************************************)
NextSubmit ==
    \/ \E urls \in UrlLists : QueueScrapingAddBulk(urls)
    \/ \E q \in 1..MaxRequests : QueueScrapingReturn(q)
    \/ Worker

SpecSubmit == Init /\ [][NextSubmit]_vars

(***************************************************************************)
(* scrapeUrl on its own: every url against every response.                 *)
(***************************************************************************)
CallScrapeUrl(url, resp) ==
    /\ call' = [fn |-> "scrapeUrl", url |-> url, resp |-> resp,
                result |-> scrapeUrl(url, resp)]
    /\ UNCHANGED <<jobs, wait, store, requests, cache, reads, submissions, failed>>

NextScrape == \E url \in URLs, resp \in Responses : CallScrapeUrl(url, resp)

SpecScrape == Init /\ [][NextScrape]_vars

TypeOK ==
    /\ \A i \in JobIds : jobs[i].attemptsMade \in 0..(ATTEMPTS + 1)
    /\ Len(jobs) <= MaxJobs


(***************************************************************************)
(* Properties.                                                             *)
(***************************************************************************)
RowsWith(mediaUrl) == {k \in DOMAIN store : store[k].mediaUrl = mediaUrl}

\* the mediaUrls of the batch a job has written once its createMany resolved
Written(i) ==
    IF jobs[i].pc = "invalidate"
    THEN {jobs[i].mediaToCreate[k].mediaUrl : k \in DOMAIN jobs[i].mediaToCreate}
    ELSE {}

\* C1: after any interleaving of bulk inserts the media table holds exactly
\* one row for each mediaUrl a resolved insert contained: no two rows share a
\* mediaUrl, and every mediaUrl of a written batch has its row.
C1_OneRowPerMediaUrl ==
    /\ \A a, b \in DOMAIN store :
          store[a].mediaUrl = store[b].mediaUrl => a = b
    /\ \A i \in JobIds : \A m \in Written(i) : Cardinality(RowsWith(m)) = 1

\* two workers have written batches that share m1 at the same time, one of
\* the batches holding m1 twice
C1_Witness ==
    \E i, j \in JobIds :
        /\ jobs[i].pc = "invalidate" /\ jobs[i].url = "u1"
        /\ jobs[j].pc = "invalidate" /\ jobs[j].url = "u2"
        /\ Len(jobs[i].mediaToCreate) = 2
        /\ Cardinality(RowsWith("m1")) = 1

C4_InsertFailureRetried ==
    [][\A i \in JobIds :
          /\ (jobs[i].pc = "insert" /\ jobs'[i].pc = "idle") =>
                /\ jobs[i].attemptsMade < 2 =>
                      jobs'[i].state = "wait" /\ wait' = Append(wait, i)
                /\ jobs[i].attemptsMade >= 2 => jobs'[i].state = "failed"
                /\ store' = store
          /\ (jobs[i].pc = "insert" /\ jobs'[i].pc = "invalidate") =>
                \A k \in DOMAIN jobs[i].mediaToCreate :
                    \E r \in DOMAIN store' :
                        store'[r].mediaUrl = jobs[i].mediaToCreate[k].mediaUrl
      ]_vars

\* the retry of a job is at its insert while the table is still empty: its
\* first attempt ended in createMany throwing (a later failure would have
\* left rows, a failed fetch would have completed the job)
C4_Witness ==
    \E i \in JobIds :
        jobs[i].pc = "insert" /\ jobs[i].attemptsMade = 2 /\ store = << >>

\* C5: an attempt whose fetch, extraction and createMany all succeeded ends
\* with the job Completed, whatever the steps after the insert do: a job
\* past its insert leaves that attempt only as completed.
C5_PersistedAttemptCompletes ==
    [][\A i \in JobIds :
          jobs[i].pc = "invalidate" =>
              jobs'[i].pc = "invalidate" \/ jobs'[i].state = "completed"
      ]_vars

\* C6: a job whose fetch timed out or failed is a failed attempt, retried or
\* failed permanently: it is never Completed.
C6_FetchFailureIsJobFailure ==
    \A i \in JobIds : jobs[i].state = "completed" => jobs[i].fetch # "failed"

\* C7: an attempt whose extraction yields no media completes the job at
\* once: nothing is written, the table is unchanged, the job is not queued
\* again.
C7_ZeroMediaCompletes ==
    [][\A i \in JobIds :
          (jobs[i].pc = "scrape" /\ jobs'[i].fetch \in {"empty", "failed"}) =>
              /\ jobs'[i].state = "completed"
              /\ store' = store
              /\ wait' = wait
      ]_vars

\* a job has completed on a fetched page without qualifying media
C7_Witness ==
    \E i \in JobIds : jobs[i].state = "completed" /\ jobs[i].fetch = "empty"

\* the fetch of a call did not produce a parsed page
CallFailed ==
    \/ call.resp.kind \in {"timeout", "network"}
    \/ call.resp.status < 200
    \/ call.resp.status > 399
    \/ call.resp.body = "throws"

\* C8: scrapeUrl never throws: on a timeout, a network error, a status
\* outside 200..399 or an exception while parsing or extracting it returns
\* the empty list and logs a warning; otherwise it returns what extraction
\* yields.
C8_ScrapeUrlNeverThrows ==
    call.fn = "scrapeUrl" =>
        /\ call.result.tag = "return"
        /\ CallFailed => call.result.value = << >> /\ call.result.log = "warn"
        /\ ~CallFailed => call.result.value = Extract(call.url, call.resp.body)

\* scrapeUrl has answered a 404 with the empty list
C8_Witness ==
    /\ call.fn = "scrapeUrl"
    /\ call.resp.kind = "http" /\ call.resp.status = 404
    /\ call.result.tag = "return" /\ call.result.value = << >>

\* C9: queueScraping adds exactly one job per element of urls, in order and
\* in one step, repeated urls included, and the jobCount it returns is the
\* length of urls.
C9_OneJobPerUrl ==
    [][/\ Len(requests') = Len(requests) + 1 =>
            LET r == requests'[Len(requests')]
                n == Len(r.urls)
            IN  /\ Len(jobs') = Len(jobs) + n
                /\ \A k \in 1..Len(jobs) : jobs'[k] = jobs[k]
                /\ \A k \in 1..n :
                      /\ jobs'[Len(jobs) + k].url = r.urls[k]
                      /\ jobs'[Len(jobs) + k].state = "wait"
                /\ wait' = wait \o [k \in 1..n |-> Len(jobs) + k]
       /\ Len(requests') = Len(requests) => Len(jobs') = Len(jobs)
       /\ \A q \in DOMAIN requests' :
            requests'[q].response # NoResponse =>
                requests'[q].response.jobCount = Len(requests'[q].urls)
      ]_vars

\* the same url submitted twice was answered with 2, an empty list with 0
C9_Witness ==
    \E q, e \in DOMAIN requests :
        /\ requests[q].urls = <<"u1", "u1">>
        /\ requests[q].response.jobCount = 2
        /\ Cardinality(JobsOf(q)) = 2
        /\ requests[e].urls = << >>
        /\ requests[e].response.jobCount = 0

\* C10: the acknowledgement is returned without waiting for any job: while a
\* request has its jobs enqueued and no response yet, the return is enabled
\* whatever the state of the jobs; the response is the fixed message with
\* the number of urls, and once sent it never changes, whatever the jobs do.
C10_ImmediateAck ==
    [][\A q \in DOMAIN requests :
          /\ requests[q].response = NoResponse =>
                ENABLED QueueScrapingReturn(q)
          /\ requests[q].response # NoResponse =>
                /\ requests[q].response =
                      [message |-> "URLs queued for scraping",
                       jobCount |-> Len(requests[q].urls)]
                /\ requests'[q] = requests[q]
      ]_vars

\* a request was acknowledged with its full job count although one of its
\* jobs has failed permanently
C10_Witness ==
    \E q \in DOMAIN requests :
        /\ requests[q].response # NoResponse
        /\ requests[q].response.jobCount = Len(requests[q].urls)
        /\ \E i \in JobsOf(q) : jobs[i].state = "failed"

(***************************************************************************)
(* The submission boundary: POST /scrape behind the global ValidationPipe  *)
(* with ScrapeUrlsDto.  "u1" and "u2" stand for well-formed URLs,          *)
(* "not-a-url" for a string IsUrl refuses.                                 *)
(***************************************************************************)
UrlStrings == URLs \cup {"not-a-url"}

\* the bodies of POST /scrape: urls missing, or an array of strings
Bodies ==
    {[present |-> FALSE, urls |-> << >>]}
    \cup {[present |-> TRUE, urls |-> l] :
            l \in UNION {[1..n -> UrlStrings] : n \in 0..MaxUrls}}

IsArray(body) == body.present

ArrayMinSize(body, min) == Len(body.urls) >= min

IsUrl(s) == s \in URLs

\* a validation that passes as soon as one element is a URL
IsUrlSome(body) == \E k \in DOMAIN body.urls : IsUrl(body.urls[k])

\* @IsUrl({}, { each: true })
IsUrlEach(body) == \A k \in DOMAIN body.urls : IsUrl(body.urls[k])

\* ValidationPipe on ScrapeUrlsDto: no constraint of urls is violated
Validate(body) == IsArray(body) /\ ArrayMinSize(body, 1) /\ IsUrlEach(body)

\* POST /scrape as one step: the pipe answers 400 before the handler runs,
\* or the handler enqueues and answers 201
ScrapeUrls(body) ==
    /\ IF Validate(body)
       THEN /\ Len(jobs) + Len(body.urls) <= MaxJobs
            /\ AddBulk(BuildJobs(body.urls))
            /\ call' = [fn |-> "scrapeUrls", body |-> body, status |-> 201,
                        response |-> QueuedResponse(body.urls)]
       ELSE /\ UNCHANGED <<jobs, wait>>
            /\ call' = [fn |-> "scrapeUrls", body |-> body, status |-> 400,
                        response |-> NoResponse]
    /\ UNCHANGED <<store, requests, cache, reads, submissions, failed>>

NextBoundary == \E body \in Bodies : ScrapeUrls(body)

SpecBoundary == Init /\ [][NextBoundary]_vars

\* the body of the last call breaks a constraint of the claim: urls missing,
\* empty, or with a malformed element
Malformed(body) ==
    \/ ~body.present
    \/ body.urls = << >>
    \/ \E k \in DOMAIN body.urls : body.urls[k] \notin URLs

ProcessedBefore(i) ==
    \A k \in DOMAIN jobs[i].mediaToCreate :
        RowsWith(jobs[i].mediaToCreate[k].mediaUrl) # {}

\* C12: the insert of a job whose url was processed before with the same
\* page content (a retry or a duplicate submission) leaves the table as it
\* was: no row added, changed or removed.
C12_SecondProcessingNoChange ==
    [][\A i \in JobIds :
          (jobs[i].pc = "insert" /\ jobs'[i].pc = "invalidate"
           /\ ProcessedBefore(i)) => store' = store
      ]_vars

\* two jobs of a duplicate submission of u2 have both written their batch,
\* and the table holds the rows of one batch
C12_Witness ==
    \E i, j \in JobIds :
        /\ i # j
        /\ jobs[i].url = "u2" /\ jobs[i].pc = "invalidate"
        /\ jobs[j].url = "u2" /\ jobs[j].pc = "invalidate"
        /\ store = createMany(<< >>, jobs[i].mediaToCreate)
        /\ Len(store) = 2

\* C13: a row of the media table is never changed or deleted: every step
\* keeps every existing row with all its fields at its place, also an insert
\* that carries the same mediaUrl under another sourceUrl, title or altText;
\* so the set of stored mediaUrls only grows.
C13_RowsNeverChange ==
    [][/\ \A k \in DOMAIN store :
             k \in DOMAIN store' /\ store'[k] = store[k]
       /\ {store[k].mediaUrl : k \in DOMAIN store}
             \subseteq {store'[k].mediaUrl : k \in DOMAIN store'}
      ]_vars

\* the batch of u2, which carries m1 with title B and no alt, has been
\* written after the row of m1 from u1: the row still has its first fields
C13_Witness ==
    /\ \E i \in JobIds : jobs[i].url = "u2" /\ jobs[i].pc = "invalidate"
    /\ Len(store) = 2
    /\ store[1] = [sourceUrl |-> "u1", mediaUrl |-> "m1", type |-> "image",
                   alt |-> "cat", title |-> "A"]
    /\ store[2].mediaUrl = "m2"

(***************************************************************************)
(* Isolation of job failures.                                              *)
(***************************************************************************)
\* job i leaves its attempt by a rejection in this step
FailsNow(i) ==
    /\ i \in JobIds
    /\ jobs[i].state = "active"
    /\ jobs'[i].state \in {"wait", "failed"}

MediaRow(n) ==
    [id |-> n,
     sourceUrl |-> IF n % 2 = 0 THEN "u2" ELSE "u1",
     mediaUrl |-> ToString(n),
     type |-> IF n % 3 = 0 THEN "video" ELSE "image",
     alt |-> IF n % 4 = 1 THEN "Cat" ELSE "null",
     title |-> IF n % 3 = 0 THEN "V" ELSE "A",
     createdAt |-> (n + BatchSize - 1) \div BatchSize]

Tables == {[n \in 1..m |-> MediaRow(n)] : m \in 0..MaxRows}

\* the characters of the texts of the model; a column that is NULL has none
Chars(text) ==
    CASE text = "Cat"  -> <<"C", "a", "t">>
      [] text = "cat"  -> <<"c", "a", "t">>
      [] text = "AT"   -> <<"A", "T">>
      [] text = "A"    -> <<"A">>
      [] text = "V"    -> <<"V">>
      [] text = "u1"   -> <<"u", "1">>
      [] text = "u2"   -> <<"u", "2">>
      [] text = "null" -> << >>
      [] OTHER         -> <<"m", text>>

ToLower(c) ==
    CASE c = "C" -> "c" [] c = "A" -> "a" [] c = "T" -> "t" [] c = "V" -> "v"
      [] OTHER -> c

\* { contains: term, mode: 'insensitive' }
ContainsInsensitive(text, term) ==
    LET s == [k \in DOMAIN Chars(text) |-> ToLower(Chars(text)[k])]
        t == [k \in DOMAIN Chars(term) |-> ToLower(Chars(term)[k])]
    IN  /\ text # "null"
        /\ \E i \in 0..(Len(s) - Len(t)) :
              \A k \in 1..Len(t) : s[i + k] = t[k]

\* the where clause getMedia builds; "" is an absent parameter
Where(row, type, search) ==
    /\ type # "" => row.type = type
    /\ search # "" =>
          \/ ContainsInsensitive(row.alt, search)
          \/ ContainsInsensitive(row.title, search)
          \/ ContainsInsensitive(row.sourceUrl, search)
          \/ ContainsInsensitive(row.mediaUrl, search)

\* an ascending order, oldest first
OrderByCreatedAtAsc(a, b, tie) ==
    \/ a.createdAt < b.createdAt
    \/ a.createdAt = b.createdAt /\ a.id < b.id

\* orderBy: { createdAt: 'desc' }: a comes before b in the result
OrderByCreatedAtDesc(a, b, tie) ==
    \/ a.createdAt > b.createdAt
    \/ /\ a.createdAt = b.createdAt
       /\ IF tie = "heap" THEN a.id < b.id ELSE a.id > b.id

\* the rows that satisfy the where clause, in the order of the query
Ordered(rows, type, search, tie) ==
    LET match == {k \in DOMAIN rows : Where(rows[k], type, search)}
        rank(k) == Cardinality({j \in match :
                       OrderByCreatedAtDesc(rows[j], rows[k], tie)})
    IN  [r \in 1..Cardinality(match) |->
            rows[CHOOSE k \in match : rank(k) = r - 1]]

\* a skip that takes page for a zero-based index
SkipZeroBased(page, limit) == page * limit

\* const skip = (page - 1) * limit
Skip(page, limit) == (page - 1) * limit

\* findMany({ where, skip, take, orderBy })
findMany(rows, type, search, skip, take, tie) ==
    LET o == Ordered(rows, type, search, tie)
        last == IF skip + take < Len(o) THEN skip + take ELSE Len(o)
    IN  [k \in 1..(IF last > skip THEN last - skip ELSE 0) |-> o[skip + k]]

\* count({ where })
count(rows, type, search) ==
    Cardinality({k \in DOMAIN rows : Where(rows[k], type, search)})

\* Math.ceil(total / limit) for total >= 0, limit >= 1
Ceil(total, limit) == (total + limit - 1) \div limit

getMedia(rows, query, tie) ==
    LET total == count(rows, query.type, query.search)
    IN  [data |-> findMany(rows, query.type, query.search,
                           Skip(query.page, query.limit), query.limit, tie),
         meta |-> [total |-> total, page |-> query.page, limit |-> query.limit,
                   totalPages |-> Ceil(total, query.limit)]]

\* limits GetMediaDto admits (Min(1), Max(100)), the default among them
Limits == {1, 2, 7, 20, 100}

Queries ==
    [page : 1..MaxPage, limit : Limits, type : {"", "image", "video"},
     search : {"", "cat", "AT"}]

InitQuery ==
    /\ jobs = << >>
    /\ wait = << >>
    /\ requests = << >>
    /\ call = NoCall
    /\ store \in Tables
    /\ cache = EmptyCache
    /\ reads = << >>
    /\ submissions = << >>
    /\ failed = << >>

\* one query against each table
CallGetMedia(query, tie) ==
    /\ call = NoCall
    /\ call' = [fn |-> "getMedia", query |-> query, tie |-> tie,
                result |-> getMedia(store, query, tie)]
    /\ UNCHANGED <<jobs, wait, store, requests, cache, reads, submissions, failed>>

NextQuery ==
    \E query \in Queries, tie \in {"heap", "reverse"} : CallGetMedia(query, tie)

SpecQuery == InitQuery /\ [][NextQuery]_vars

\* the rows of the table that match the filters of the last query
Matching ==
    {store[k] : k \in {j \in DOMAIN store :
                         Where(store[j], call.query.type, call.query.search)}}

\* C15: for every page >= 1 and limit in 1..100 getMedia returns at most
\* limit items; they are distinct matching rows, as many as are left after
\* skipping (page-1)*limit, and the rows left out ahead of them are the
\* (page-1)*limit newest; meta.total is the number of matching rows and
\* meta.totalPages = ceil(total / limit).  On a table of 25 rows page 2 with
\* limit 20 has 5 items and totalPages 2.
C15_Pagination ==
    call.fn = "getMedia" =>
        LET q == call.query
            data == call.result.data
            meta == call.result.meta
            total == Cardinality(Matching)
            skipped == (q.page - 1) * q.limit
            left == IF total > skipped THEN total - skipped ELSE 0
        IN  /\ Len(data) <= q.limit
            /\ Len(data) = IF left > q.limit THEN q.limit ELSE left
            /\ \A k \in DOMAIN data : data[k] \in Matching
            /\ \A k, h \in DOMAIN data : data[k] = data[h] => k = h
            /\ data # << >> =>
                  /\ Cardinality({r \in Matching :
                         r.createdAt > data[1].createdAt}) <= skipped
                  /\ Cardinality({r \in Matching \ Range(data) :
                         r.createdAt >= data[1].createdAt}) >= skipped
            /\ meta.total = total
            /\ meta.totalPages * q.limit >= total
            /\ (meta.totalPages - 1) * q.limit < total
            /\ (Len(store) = 25 /\ q.page = 2 /\ q.limit = 20
                /\ q.type = "" /\ q.search = "") =>
                  Len(data) = 5 /\ meta.totalPages = 2

\* page 2 with limit 20 of a table of 25 rows was answered
C15_Witness ==
    /\ call.fn = "getMedia"
    /\ Len(store) = 25
    /\ call.query = [page |-> 2, limit |-> 20, type |-> "", search |-> ""]
    /\ Len(call.result.data) = 5
    /\ call.result.meta.totalPages = 2

\* C16: the items of getMedia are ordered by createdAt descending: within a
\* page no item is followed by a newer one, and every item of the next page
\* is no newer than every item of this page, however the database orders
\* the rows of one batch in either query.
C16_NewestFirst ==
    call.fn = "getMedia" =>
        LET data == call.result.data
        IN  /\ \A k \in 1..(Len(data) - 1) :
                  data[k].createdAt >= data[k + 1].createdAt
            /\ \A tie \in {"heap", "reverse"} :
                  LET next == getMedia(store,
                                 [call.query EXCEPT !.page = @ + 1], tie).data
                  IN  \A a \in DOMAIN data, b \in DOMAIN next :
                          next[b].createdAt <= data[a].createdAt

\* a page that spans several batches, two rows of one batch in it in the
\* reverse of their insertion order, followed by a page that is not empty
C16_Witness ==
    /\ call.fn = "getMedia"
    /\ call.query = [page |-> 1, limit |-> 7, type |-> "", search |-> ""]
    /\ call.tie = "reverse"
    /\ Len(store) = 25
    /\ call.result.data[1].createdAt > call.result.data[7].createdAt
    /\ \E k \in 1..6 :
          /\ call.result.data[k].createdAt = call.result.data[k + 1].createdAt
          /\ call.result.data[k].id > call.result.data[k + 1].id

(***************************************************************************)
(* Strings of the extractor.  A string is a sequence of tokens; a token is *)
(* a run of characters none of the operations below looks inside: a scheme *)
(* with its colon, a host, a slash, a dot segment, a word, an extension.   *)
(***************************************************************************)
StartsWith(s, prefix) ==
    Len(s) >= Len(prefix) /\ SubSeq(s, 1, Len(prefix)) = prefix

EndsWith(s, suffix) ==
    Len(s) >= Len(suffix)
    /\ SubSeq(s, Len(s) - Len(suffix) + 1, Len(s)) = suffix

SpecialSchemes == {"http:", "https:", "ftp:"}

OpaqueSchemes == {"data:", "mailto:"}

HostTokens == {"example.com", "Example.COM", "cdn.com", "host:8080",
               "youtube.com", "www.youtube.com", "player.vimeo.com",
               "www.dailymotion.com"}

\* the URL parser lower-cases scheme and host
AsciiLower(token) ==
    CASE token = "HTTP:" -> "http:"
      [] token = "Example.COM" -> "example.com"
      [] OTHER -> token

\* the last of the pieces takes one more token
AppendToLast(pieces, token) ==
    [pieces EXCEPT ![Len(pieces)] = Append(@, token)]

SplitSlashStep(pieces, token) ==
    IF token = "/" THEN Append(pieces, << >>) ELSE AppendToLast(pieces, token)

\* s.split('/')
SplitSlash(s) ==
    LET f[i \in 0..Len(s)] ==
            IF i = 0 THEN << << >> >> ELSE SplitSlashStep(f[i - 1], s[i])
    IN  f[Len(s)]

Pop(out) == IF out = << >> THEN out ELSE SubSeq(out, 1, Len(out) - 1)

\* one segment of a path met by the URL parser: "." is dropped, ".." drops
\* the segment before it, and either leaves a trailing slash when it is last
DotSegmentStep(out, seg, last) ==
    IF seg = <<".">> THEN (IF last THEN Append(out, << >>) ELSE out)
    ELSE IF seg = <<"..">>
    THEN (IF last THEN Append(Pop(out), << >>) ELSE Pop(out))
    ELSE Append(out, seg)

RemoveDotSegments(segs) ==
    LET f[i \in 0..Len(segs)] ==
            IF i = 0 THEN << >>
            ELSE DotSegmentStep(f[i - 1], segs[i], i = Len(segs))
    IN  f[Len(segs)]

\* the path segments of a path that starts with a slash (or is empty), dot
\* segments removed as the URL parser removes them
PathSegments(path) == RemoveDotSegments(Tail(SplitSlash(path)))

\* the serialization of path segments: "/" before each
PathOf(segs) ==
    LET f[i \in 0..Len(segs)] ==
            IF i = 0 THEN << >> ELSE f[i - 1] \o <<"/">> \o segs[i]
    IN  IF segs = << >> THEN <<"/">> ELSE f[Len(segs)]

NotAUrl == [ok |-> FALSE, protocol |-> "", host |-> "", segs |-> << >>,
            href |-> << >>]

OpaqueUrl(s) ==
    [ok |-> TRUE, protocol |-> AsciiLower(s[1]), host |-> "",
     segs |-> << >>, href |-> <<AsciiLower(s[1])>> \o Tail(s)]

SpecialUrl(protocol, host, segs) ==
    [ok |-> TRUE, protocol |-> protocol, host |-> host, segs |-> segs,
     href |-> <<protocol, "/", "/", host>> \o PathOf(segs)]

\* new URL(s) for a string with a scheme
ParseUrl(s) ==
    IF s = << >> THEN NotAUrl
    ELSE IF AsciiLower(s[1]) \in OpaqueSchemes THEN OpaqueUrl(s)
    ELSE IF /\ AsciiLower(s[1]) \in SpecialSchemes
            /\ Len(s) >= 4
            /\ s[2] = "/" /\ s[3] = "/"
            /\ s[4] \in HostTokens
            /\ Len(s) >= 5 => s[5] = "/"
    THEN SpecialUrl(AsciiLower(s[1]), AsciiLower(s[4]),
                    PathSegments(SubSeq(s, 5, Len(s))))
    ELSE NotAUrl

Origin(base) == <<base.protocol, "/", "/", base.host>>

\* the path of the page without its last segment
Directory(segs) ==
    IF Len(segs) <= 1 THEN << >> ELSE PathOf(SubSeq(segs, 1, Len(segs) - 1))

\* the absolute string a reference stands for on a parsed base
Absolute(base, url) ==
    IF AsciiLower(url[1]) \in SpecialSchemes \cup OpaqueSchemes THEN url
    ELSE IF StartsWith(url, <<"/", "/">>) THEN <<base.protocol>> \o url
    ELSE IF StartsWith(url, <<"/">>) THEN Origin(base) \o url
    ELSE Origin(base) \o Directory(base.segs) \o <<"/">> \o url

ResolveAgainst(base, url) ==
    IF ~base.ok THEN NotAUrl
    ELSE IF url = << >> THEN base
    ELSE ParseUrl(Absolute(base, url))

\* new URL(url, baseUrl): .ok is FALSE where the constructor throws
ResolveUrl(url, baseUrl) == ResolveAgainst(ParseUrl(baseUrl), url)

(***************************************************************************)
(* ScraperService.normalizeUrl.                                            *)
(***************************************************************************)
\* a test that knows http:// only
StartsWithHttpOnly(url) == StartsWith(url, <<"http:", "/", "/">>)

\* url.startsWith('http://') || url.startsWith('https://')
StartsWithHttp(url) ==
    \/ StartsWith(url, <<"http:", "/", "/">>)
    \/ StartsWith(url, <<"https:", "/", "/">>)

\* a root-relative rule that keeps the path of the page
RootRelativeFromPage(base, url) == base.href \o url

\* `${base.protocol}//${base.host}${url}`
RootRelative(base, url) == Origin(base) \o url

\* return new URL(url, baseUrl).href, or the TypeError of the constructor
HrefOf(parsed) ==
    IF parsed.ok THEN Return(parsed.href, "") ELSE Throw("TypeError")

\* normalizeUrl from const base = new URL(baseUrl) on
normalizeAgainst(url, base) ==
    IF ~base.ok THEN Throw("TypeError")
    ELSE IF StartsWith(url, <<"/">>) THEN Return(RootRelative(base, url), "")
    ELSE HrefOf(ResolveAgainst(base, url))

\* the try block of normalizeUrl
normalizeTry(url, baseUrl) ==
    IF StartsWithHttp(url) THEN Return(url, "")
    ELSE IF StartsWith(url, <<"/", "/">>) THEN Return(<<"https:">> \o url, "")
    ELSE normalizeAgainst(url, ParseUrl(baseUrl))

\* catch { return url }
OrReturn(r, url) == IF r.tag = "throw" THEN Return(url, "") ELSE r

normalizeUrl(url, baseUrl) == OrReturn(normalizeTry(url, baseUrl), url)

\* the paths a src ends in
SrcPaths ==
    {<<"photo", ".jpg">>, <<"relative", "/", "path", ".jpg">>,
     <<"a", "/", "..", "/", "b", ".jpg">>, <<"..", "/", "photo", ".jpg">>,
     <<".", "/", "photo", ".jpg">>, <<"dir", "/">>, << >>}

\* what stands before the path: nothing, a slash, two slashes and a host,
\* a scheme with two slashes and a host
SrcPrefixes ==
    {<< >>, <<"/">>, <<"/", "/", "cdn.com", "/">>}
    \cup {<<scheme, "/", "/", "cdn.com", "/">> :
            scheme \in {"http:", "https:", "HTTP:", "ftp:"}}

Srcs ==
    {prefix \o path : prefix \in SrcPrefixes, path \in SrcPaths}
    \cup {<<"mailto:", "someone">>, <<"ftp:", "/", "/">>,
          <<"https:", "/", "/">>, <<"/", "/">>}

\* the urls of the pages: parseable ones, one without a scheme, the empty one
BaseUrls ==
    {<<"https:", "/", "/", "example.com">>,
     <<"https:", "/", "/", "example.com", "/", "page">>,
     <<"http:", "/", "/", "Example.COM", "/", "dir", "/", "page">>,
     <<"https:", "/", "/", "host:8080", "/", "dir", "/">>,
     <<"example.com">>, << >>}

CallNormalizeUrl(url, baseUrl) ==
    /\ call' = [fn |-> "normalizeUrl", url |-> url, baseUrl |-> baseUrl,
                result |-> normalizeUrl(url, baseUrl)]
    /\ UNCHANGED <<jobs, wait, store, requests, cache, reads, submissions, failed>>

NextNormalize ==
    \E url \in Srcs, baseUrl \in BaseUrls : CallNormalizeUrl(url, baseUrl)

SpecNormalize == Init /\ [][NextNormalize]_vars

\* C19: normalizeUrl is idempotent on absolute results: when the result of
\* normalizeUrl(src, base) is an absolute URL, normalizing it again against
\* the same base returns it unchanged.
C19_NormalizeIdempotent ==
    call.fn = "normalizeUrl" =>
        (ParseUrl(call.result.value).ok =>
            normalizeUrl(call.result.value, call.baseUrl).value
                = call.result.value)

\* a relative src with a dot segment was resolved to an absolute URL that
\* differs from it
C19_Witness ==
    /\ call.fn = "normalizeUrl"
    /\ call.url = <<"..", "/", "photo", ".jpg">>
    /\ call.baseUrl = <<"http:", "/", "/", "Example.COM", "/", "dir", "/", "page">>
    /\ call.result.value =
          <<"http:", "/", "/", "example.com", "/", "photo", ".jpg">>

\* C20: normalizeUrl never throws and returns, by the first rule that
\* applies: src if it starts with http:// or https://; https: and src if it
\* starts with //; src if baseUrl cannot be parsed; scheme and host of
\* baseUrl and src if it starts with /; otherwise src resolved against
\* baseUrl (src itself where it cannot be resolved).  With base
\* https://example.com, /relative/path.jpg becomes
\* https://example.com/relative/path.jpg.
C20_NormalizeRules ==
    call.fn = "normalizeUrl" =>
        LET src == call.url
            v == call.result.value
            base == ParseUrl(call.baseUrl)
            resolved == ResolveUrl(src, call.baseUrl)
        IN  /\ call.result.tag = "return"
            /\ IF \/ StartsWith(src, <<"http:", "/", "/">>)
                  \/ StartsWith(src, <<"https:", "/", "/">>)
               THEN v = src
               ELSE IF StartsWith(src, <<"/", "/">>)
               THEN v = <<"https:">> \o src
               ELSE IF ~base.ok
               THEN v = src
               ELSE IF StartsWith(src, <<"/">>)
               THEN v = <<base.protocol, "/", "/", base.host>> \o src
               ELSE v = IF resolved.ok THEN resolved.href ELSE src
            /\ (/\ call.baseUrl = <<"https:", "/", "/", "example.com">>
                /\ src = <<"/", "relative", "/", "path", ".jpg">>) =>
                  v = <<"https:", "/", "/", "example.com",
                        "/", "relative", "/", "path", ".jpg">>

\* /relative/path.jpg was normalized against a page below the root of its
\* host, whose path is not part of the result
C20_Witness ==
    /\ call.fn = "normalizeUrl"
    /\ call.url = <<"/", "relative", "/", "path", ".jpg">>
    /\ call.baseUrl = <<"https:", "/", "/", "example.com", "/", "page">>
    /\ call.result.value = <<"https:", "/", "/", "example.com",
                              "/", "relative", "/", "path", ".jpg">>

(***************************************************************************)
(* Texts of the extractor: attribute values, captions, headings, file      *)
(* names.  A blank is the token " "; the other tokens are words, each with *)
(* its number of characters.                                               *)
(***************************************************************************)
CharLen(token) ==
    CASE token \in {"my", "ab", "-_"} -> 2
      [] token \in {"cat", "IMG", "Img", "img", "123", "dir", "abc"} -> 3
      [] token \in {"Logo", "logo", "path", "clip", "Clip",
                    ".jpg", ".png", ".svg", ".SVG", ".mp4"} -> 4
      [] token \in {"photo", "Photo", "embed", "video", "Video", "Image",
                    "Vimeo", "https:", "http:", "HTTP:", "data:"} -> 5
      [] token \in {"Sunset", "sunset", "Figure"} -> 6
      [] token \in {"myPhoto", "Heading", "YouTube", "x7tgad0"} -> 7
      [] token \in {"vacation", "Vacation", "relative", "76979871",
                    "Embedded", "abc12345"} -> 8
      [] token \in {"dQw4w9WgXcQ", "youtube.com", "Dailymotion"} -> 11
      [] token = "www.youtube.com" -> 15
      [] token = "player.vimeo.com" -> 16
      [] token = "www.dailymotion.com" -> 19
      [] OTHER -> 1

\* s.length
Length(s) ==
    LET f[i \in 0..Len(s)] == IF i = 0 THEN 0 ELSE f[i - 1] + CharLen(s[i])
    IN  f[Len(s)]

FirstIndex(S) == CHOOSE k \in S : \A h \in S : k <= h

LastIndex(S) == CHOOSE k \in S : \A h \in S : k >= h

Between(s, inked) ==
    IF inked = {} THEN << >> ELSE SubSeq(s, FirstIndex(inked), LastIndex(inked))

\* s.trim()
Trim(s) == Between(s, {k \in DOMAIN s : s[k] # " "})

\* /^\d+$/
IsDigits(s) == s # << >> /\ \A k \in DOMAIN s : s[k] \in {"123", "76979871"}

\* first character to upper case, the rest to lower case
Capitalize(token) ==
    CASE token = "my" -> "My"
      [] token = "photo" -> "Photo"
      [] token = "vacation" -> "Vacation"
      [] token = "logo" -> "Logo"
      [] token = "clip" -> "Clip"
      [] token = "path" -> "Path"
      [] token = "IMG" -> "Img"
      [] token = "ab" -> "Ab"
      [] token = "a" -> "A"
      [] token = "b" -> "B"
      [] token = "dir" -> "Dir"
      [] OTHER -> token

\* /([a-z])([A-Z])/ inside a token: the words it falls into
CamelWords(token) ==
    IF token = "myPhoto" THEN <<"my", "Photo">> ELSE <<token>>

WordsStep(words, parts) ==
    IF Len(parts) = 2
    THEN Append(AppendToLast(words, parts[1]), <<parts[2]>>)
    ELSE AppendToLast(words, parts[1])

NonEmpty(word) == word # << >>

\* the words of a file name: '-' and '_' are blanks, a camelCase boundary
\* is a blank, empty words are dropped
Words(name) ==
    LET f[i \in 0..Len(name)] ==
            IF i = 0 THEN << << >> >>
            ELSE IF name[i] \in {"-", "_", " "} THEN Append(f[i - 1], << >>)
            ELSE WordsStep(f[i - 1], CamelWords(name[i]))
    IN  SelectSeq(f[Len(name)], NonEmpty)

CapitalizeWord(word) == <<Capitalize(word[1])>> \o Tail(word)

\* words.map(capitalize).join(' ')
JoinCapitalized(words) ==
    LET f[i \in 0..Len(words)] ==
            IF i = 0 THEN << >>
            ELSE IF i = 1 THEN CapitalizeWord(words[i])
            ELSE f[i - 1] \o <<" ">> \o CapitalizeWord(words[i])
    IN  f[Len(words)]

ImageExtensions == {".jpg", ".png", ".svg", ".SVG"}

\* new URL(url).pathname.split('/').pop() || ''
LastSegment(parsed) ==
    IF parsed.segs = << >> THEN << >> ELSE parsed.segs[Len(parsed.segs)]

\* filename.replace(/\.(jpg|jpeg|png|gif|webp|bmp|svg)$/i, '')
WithoutExtension(filename) ==
    IF filename # << >> /\ filename[Len(filename)] \in ImageExtensions
    THEN SubSeq(filename, 1, Len(filename) - 1) ELSE filename

\* cleaned.length > 2 && !/^\d+$/.test(cleaned)
Meaningful(cleaned) ==
    IF Length(cleaned) > 2 /\ ~IsDigits(cleaned) THEN cleaned ELSE << >>

FilenameOf(parsed) ==
    IF ~parsed.ok THEN << >>
    ELSE Meaningful(JoinCapitalized(Words(WithoutExtension(LastSegment(parsed)))))

extractFilenameFromUrl(url) == FilenameOf(ParseUrl(url))

\* a token holds the site name
TokenIncludes(token, site) ==
    CASE site = "youtube.com" -> token \in {"youtube.com", "www.youtube.com"}
      [] site = "vimeo.com" -> token \in {"vimeo.com", "player.vimeo.com"}
      [] site = "dailymotion.com" ->
            token \in {"dailymotion.com", "www.dailymotion.com"}
      [] OTHER -> token = site

\* url.includes(site)
Includes(url, site) == \E k \in DOMAIN url : TokenIncludes(url[k], site)

\* url.includes(site + path)
IncludesPath(url, site, path) ==
    \E k \in DOMAIN url :
        /\ TokenIncludes(url[k], site)
        /\ k + Len(path) <= Len(url)
        /\ SubSeq(url, k + 1, k + Len(path)) = path

EmbedTitle(url, videoId) ==
    IF /\ \/ IncludesPath(url, "youtube.com", <<"/", "embed", "/">>)
          \/ IncludesPath(url, "youtu.be", <<"/">>)
       /\ videoId # << >> /\ Length(videoId) > 5
    THEN <<"YouTube", " ", "Video", " ", "(">> \o videoId \o <<")">>
    ELSE IF /\ IncludesPath(url, "vimeo.com", <<"/", "video", "/">>)
            /\ IsDigits(videoId)
    THEN <<"Vimeo", " ", "Video", " ", "(">> \o videoId \o <<")">>
    ELSE IF /\ IncludesPath(url, "dailymotion.com",
                            <<"/", "embed", "/", "video", "/">>)
            /\ videoId # << >>
    THEN <<"Dailymotion", " ", "Video", " ", "(">> \o videoId \o <<")">>
    ELSE << >>

EmbedTitleOf(url, parsed) ==
    IF ~parsed.ok THEN << >> ELSE EmbedTitle(url, LastSegment(parsed))

\* the srcs of the model carry no query string, so searchParams has no title
extractTitleFromEmbedUrl(url) == EmbedTitleOf(url, ParseUrl(url))

(***************************************************************************)
(* The three passes of scrapeUrl over a parsed page.  An element carries   *)
(* its attributes and what the title rules read around it; attr() of an    *)
(* absent attribute is undefined, which every test of the extractor takes  *)
(* like the empty string, so both are the empty text here.  For a source   *)
(* element the attributes other than src are those of its video.           *)
(* dataTitle stands for attr('data-title') || attr('data-caption').        *)
(***************************************************************************)
\* an alt test that does not look at the trimmed text
AltMeaningfulNoTrim(alt) == alt # << >> /\ Length(alt) > 3

\* altText && altText.trim() && altText.length > 3
AltMeaningful(alt) == alt # << >> /\ Trim(alt) # << >> /\ Length(alt) > 3

FirstOf(texts, inked, fallback) ==
    IF inked = {} THEN fallback ELSE Trim(texts[FirstIndex(inked)])

\* the first text of a list that is not blank after trim(), trimmed
FirstNonBlank(texts, fallback) ==
    FirstOf(texts, {k \in DOMAIN texts : Trim(texts[k]) # << >>}, fallback)

\* _src.includes(...) platform defaults of video and iframe titles
PlatformTitle(src, fallback) ==
    IF Includes(src, "youtube.com") \/ Includes(src, "youtu.be")
    THEN <<"YouTube", " ", "Video">>
    ELSE IF Includes(src, "vimeo.com") THEN <<"Vimeo", " ", "Video">>
    ELSE IF Includes(src, "dailymotion.com")
    THEN <<"Dailymotion", " ", "Video">>
    ELSE fallback

\* a cascade that asks alt before title
computeImageTitleAltFirst(el, src) ==
    IF AltMeaningful(el.alt) THEN Trim(el.alt)
    ELSE IF Trim(el.title) # << >> THEN Trim(el.title)
    ELSE FirstNonBlank(<<el.ariaLabel, el.figcaption, el.headingInParent,
                         el.prevHeading, el.parentDataTitle,
                         extractFilenameFromUrl(src)>>,
                       <<"Image">>)

computeImageTitle(el, src) ==
    IF Trim(el.title) # << >> THEN Trim(el.title)
    ELSE IF AltMeaningful(el.alt) THEN Trim(el.alt)
    ELSE FirstNonBlank(<<el.ariaLabel, el.figcaption, el.headingInParent,
                         el.prevHeading, el.parentDataTitle,
                         extractFilenameFromUrl(src)>>,
                       <<"Image">>)

computeVideoTitle(el, src) ==
    FirstNonBlank(<<el.title, el.ariaLabel, el.dataTitle,
                    el.headingInParent, el.prevHeading, el.parentDataTitle,
                    extractFilenameFromUrl(src)>>,
                  PlatformTitle(src, <<"Video">>))

computeIframeTitle(el, src) ==
    FirstNonBlank(<<el.title, el.ariaLabel, el.dataTitle,
                    el.headingInParent, el.prevHeading, el.parentDataTitle,
                    extractTitleFromEmbedUrl(src)>>,
                  PlatformTitle(src, <<"Embedded", " ", "Video">>))

isValidMediaUrl(url) ==
    /\ url # << >>
    /\ ~StartsWith(url, <<"data:">>)
    /\ ~EndsWith(url, <<".svg">>)

\* src.includes('youtube.com') || 'vimeo.com' || 'dailymotion.com'
IsEmbed(src) ==
    \/ Includes(src, "youtube.com")
    \/ Includes(src, "vimeo.com")
    \/ Includes(src, "dailymotion.com")

\* the test of the pass of the element on its src
Accepts(el) ==
    /\ el.src # << >>
    /\ IF el.tag = "iframe" THEN IsEmbed(el.src) ELSE isValidMediaUrl(el.src)

\* the title rule of the pass of the element
TitleOf(el) ==
    IF el.tag = "img" THEN computeImageTitle(el, el.src)
    ELSE IF el.tag = "iframe" THEN computeIframeTitle(el, el.src)
    ELSE computeVideoTitle(el, el.src)

\* the candidate an element gives in the pass of its tag, if any: only the
\* img pass reads alt
Candidate(el, url) ==
    IF Accepts(el)
    THEN << [url |-> normalizeUrl(el.src, url).value,
             type |-> IF el.tag = "img" THEN "image" ELSE "video",
             alt |-> IF el.tag = "img" THEN el.alt ELSE << >>,
             title |-> TitleOf(el)] >>
    ELSE << >>

\* $(selector).each(...) over the page in document order
Pass(page, tags, url) ==
    LET f[i \in 0..Len(page)] ==
            IF i = 0 THEN << >>
            ELSE IF page[i].tag \in tags
            THEN f[i - 1] \o Candidate(page[i], url)
            ELSE f[i - 1]
    IN  f[Len(page)]

\* media after the img pass, the video pass and the iframe pass
scrapeMedia(page, url) ==
    LET passes == << {"img"}, {"video", "source"}, {"iframe"} >>
        f[k \in 0..3] ==
            IF k = 0 THEN << >> ELSE f[k - 1] \o Pass(page, passes[k], url)
    IN  f[3]

Bare(tag, src) ==
    [tag |-> tag, src |-> src, title |-> << >>, alt |-> << >>,
     ariaLabel |-> << >>, dataTitle |-> << >>, figcaption |-> << >>,
     headingInParent |-> << >>, prevHeading |-> << >>,
     parentDataTitle |-> << >>]

\* srcs that meet the filters of the passes
FilterSrcs ==
    {<< >>,
     <<"data:", "image">>,
     <<"data:", "youtube.com">>,
     <<"logo", ".svg">>,
     <<"https:", "/", "/", "cdn.com", "/", "logo", ".svg">>,
     <<"https:", "/", "/", "cdn.com", "/", "logo", ".SVG">>,
     <<"/", "logo", ".SVG">>,
     <<"photo", ".jpg">>,
     <<"https:", "/", "/", "cdn.com", "/", "clip", ".mp4">>,
     <<"https:", "/", "/", "www.youtube.com", "/", "embed", "/", "dQw4w9WgXcQ">>,
     <<"https:", "/", "/", "www.youtube.com", "/", "embed", "/", "abc">>,
     <<"https:", "/", "/", "youtube.com", "/", "embed", "/", "abc12345">>,
     <<"https:", "/", "/", "www.youtube.com", "/", "embed", "/", "logo", ".svg">>,
     <<"/", "/", "www.youtube.com", "/", "embed", "/", "dQw4w9WgXcQ">>,
     <<"https:", "/", "/", "player.vimeo.com", "/", "video", "/", "76979871">>,
     <<"https:", "/", "/", "www.dailymotion.com", "/", "embed", "/",
       "video", "/", "x7tgad0">>,
     <<"https:", "/", "/", "cdn.com", "/", "embed", "/", "video">>}

\* srcs that meet the file name rule of the titles
TitleSrcs ==
    {<<"https:", "/", "/", "cdn.com", "/", "my", "-", "vacation", "_",
       "photo", ".jpg">>,
     <<"https:", "/", "/", "cdn.com", "/", "myPhoto", ".png">>,
     <<"https:", "/", "/", "cdn.com", "/", "123", ".jpg">>,
     <<"https:", "/", "/", "cdn.com", "/", "-", "_", ".jpg">>,
     <<"/", "relative", "/", "path", ".jpg">>,
     <<"my", "-", "vacation", "-", "photo", ".jpg">>,
     <<"https:", "/", "/", "www.youtube.com", "/", "embed", "/", "dQw4w9WgXcQ">>}

Blanks == {<< >>, <<" ">>}

ImgElements ==
    {[tag |-> "img", src |-> src, title |-> title, alt |-> alt,
      ariaLabel |-> aria, dataTitle |-> << >>, figcaption |-> fig,
      headingInParent |-> hp, prevHeading |-> ph, parentDataTitle |-> pd] :
        src \in {<<"/", "relative", "/", "path", ".jpg">>,
                 <<"https:", "/", "/", "cdn.com", "/", "myPhoto", ".png">>},
        title \in Blanks \cup {<<" ", "Sunset", " ">>},
        alt \in Blanks \cup {<<"cat">>, <<" ", " ", " ", " ">>, <<"Logo", " ">>,
                             <<" ", "ab", " ">>},
        aria \in Blanks \cup {<<"sunset">>},
        fig \in {<< >>, <<" ", "Figure">>},
        hp \in {<< >>, <<"Heading">>},
        ph \in {<< >>, <<"Heading", " ", "b">>},
        pd \in Blanks \cup {<<"a">>}}

EmbedElements ==
    {[tag |-> tag, src |-> src, title |-> title, alt |-> << >>,
      ariaLabel |-> aria, dataTitle |-> dt, figcaption |-> << >>,
      headingInParent |-> hp, prevHeading |-> ph, parentDataTitle |-> pd] :
        tag \in {"video", "source", "iframe"},
        src \in {<<"https:", "/", "/", "www.youtube.com", "/", "embed", "/",
                   "abc">>},
        title \in Blanks \cup {<<" ", "Sunset", " ">>},
        aria \in Blanks \cup {<<"sunset">>},
        dt \in Blanks \cup {<<"a">>},
        hp \in {<< >>, <<"Heading">>},
        ph \in {<< >>, <<" ">>},
        pd \in Blanks \cup {<<"b", " ">>}}

Elements ==
    {Bare(tag, src) : tag \in {"img", "video", "source", "iframe"},
                      src \in FilterSrcs \cup TitleSrcs}
    \cup ImgElements \cup EmbedElements

\* the page of the unit test of the scraper: root-relative, data:, absolute
TestPage ==
    << [Bare("img", <<"/", "relative", "/", "path", ".jpg">>)
            EXCEPT !.title = <<"Image">>],
       Bare("img", <<"data:", "image">>),
       [Bare("img", <<"https:", "/", "/", "example.com", "/", "valid", ".jpg">>)
            EXCEPT !.title = <<"Valid">>] >>

\* pages of one element, the test page, and a page whose elements come in
\* the reverse order of the passes
Pages ==
    {<<el>> : el \in Elements}
    \cup {TestPage,
          << Bare("iframe", <<"https:", "/", "/", "player.vimeo.com", "/",
                              "video", "/", "76979871">>),
             Bare("video", <<"https:", "/", "/", "cdn.com", "/", "clip", ".mp4">>),
             Bare("img", <<"photo", ".jpg">>) >>}

PageUrls ==
    {<<"https:", "/", "/", "example.com">>,
     <<"https:", "/", "/", "example.com", "/", "dir", "/", "page">>}

\* a page has been fetched and parsed, its extraction is about to run
InitExtract ==
    /\ jobs = << >>
    /\ wait = << >>
    /\ store = << >>
    /\ requests = << >>
    /\ call \in {[fn |-> "loaded", page |-> page, url |-> url] :
                    page \in Pages, url \in PageUrls}
    /\ cache = EmptyCache
    /\ reads = << >>
    /\ submissions = << >>
    /\ failed = << >>

CallScrapeMedia ==
    /\ call.fn = "loaded"
    /\ call' = [fn |-> "scrapeMedia", page |-> call.page, url |-> call.url,
                result |-> scrapeMedia(call.page, call.url)]
    /\ UNCHANGED <<jobs, wait, store, requests, cache, reads, submissions, failed>>

NextExtract == CallScrapeMedia

SpecExtract == InitExtract /\ [][NextExtract]_vars

\* C17: every candidate of the extractor, whatever the page and the element
\* (img, video, source, iframe), has a title with at least one character
\* that is not white space, so title || null never stores null.
C17_TitleNeverBlank ==
    call.fn = "scrapeMedia" =>
        \A k \in DOMAIN call.result :
            /\ call.result[k].title # << >>
            /\ \E c \in DOMAIN call.result[k].title :
                  call.result[k].title[c] # " "

\* an image whose title is blank, whose alt is four blanks and whose src is
\* relative got the title Image
C17_Witness ==
    /\ call.fn = "scrapeMedia"
    /\ Len(call.page) = 1
    /\ call.page[1].tag = "img"
    /\ call.page[1].title = <<" ">>
    /\ call.page[1].alt = <<" ", " ", " ", " ">>
    /\ call.page[1].parentDataTitle = <<" ">>
    /\ Len(call.result) = 1
    /\ call.result[1].title = <<"Image">>

\* C18: no candidate of the extractor, whichever element produced it, has a
\* source that starts with data: or ends with .svg in any letter case.
C18_NoDataNoSvg ==
    call.fn = "scrapeMedia" =>
        \A k \in DOMAIN call.result :
            /\ ~StartsWith(call.result[k].url, <<"data:">>)
            /\ ~EndsWith(call.result[k].url, <<".svg">>)
            /\ ~EndsWith(call.result[k].url, <<".SVG">>)

\* the img elements of a page that the img pass takes, in document order
AcceptedImg(el) == el.tag = "img" /\ Accepts(el)

\* the values the title of an img is chosen from, highest rule first
ImageCascade(el) ==
    << el.title,
       IF Length(el.alt) > 3 THEN el.alt ELSE << >>,
       el.ariaLabel,
       el.figcaption,
       IF Trim(el.headingInParent) # << >> THEN el.headingInParent
       ELSE el.prevHeading,
       el.parentDataTitle,
       extractFilenameFromUrl(el.src),
       <<"Image">> >>

\* the value of a rule is the title when it is not blank and the value of
\* every rule above it is blank
RuleWins(values, k, title) ==
    (/\ Trim(values[k]) # << >>
     /\ \A h \in 1..(k - 1) : Trim(values[h]) = << >>)
        => title = Trim(values[k])

VideoIds == {<<"dQw4w9WgXcQ">>, <<"abc12345">>, <<"76979871">>, <<"x7tgad0">>}

\* the platform an embed src names
PlatformOf(src) ==
    IF Includes(src, "youtube.com") THEN "YouTube"
    ELSE IF Includes(src, "vimeo.com") THEN "Vimeo"
    ELSE "Dailymotion"

\* an iframe of a platform with no title, aria-label, data-title, heading
\* or parent data attribute
PlainEmbed(el) ==
    /\ el.tag = "iframe"
    /\ el.src # << >>
    /\ IsEmbed(el.src)
    /\ el = Bare("iframe", el.src)

\* C22: a page whose only element is an iframe of YouTube, Vimeo or
\* Dailymotion without title, aria-label, data attributes or headings, and
\* whose URL has a path ending in a video id, gives exactly one video
\* candidate, titled "<Platform> Video (<id>)".
C22_EmbedTitle ==
    (/\ call.fn = "scrapeMedia"
     /\ Len(call.page) = 1
     /\ PlainEmbed(call.page[1])
     /\ LastSegment(ResolveUrl(call.page[1].src, call.url)) \in VideoIds)
        => /\ Len(call.result) = 1
           /\ call.result[1].type = "video"
           /\ call.result[1].title =
                  <<PlatformOf(call.page[1].src), " ", "Video", " ", "(">>
                  \o LastSegment(ResolveUrl(call.page[1].src, call.url))
                  \o <<")">>

\* C25: an img without title, alt, aria-label, figcaption, heading or
\* parent data attribute is titled with the cleaned file name of its source
\* whenever that name is longer than 2 characters and not purely numeric,
\* also when the src is relative to the page.
C25_FilenameTitle ==
    (/\ call.fn = "scrapeMedia"
     /\ Len(call.page) = 1
     /\ call.page[1].src # << >>
     /\ call.page[1] = Bare("img", call.page[1].src)
     /\ Len(call.result) = 1
     /\ FilenameOf(ResolveUrl(call.page[1].src, call.url)) # << >>)
        => call.result[1].title =
              FilenameOf(ResolveUrl(call.page[1].src, call.url))

\* C26: a job whose attempt has just failed and that has attempts left is
\* held back for its backoff: the failure does not put it on the wait list,
\* from which the worker would dispatch it at once.
C26_BackoffBeforeRetry ==
    [][\A i \in 1..MaxJobs :
          (FailsNow(i) /\ jobs'[i].state # "failed")
              => \A k \in DOMAIN wait' : wait'[k] # i]_vars

\* job i fails for good in this step
FailsPermanentlyNow(i) == FailsNow(i) /\ jobs'[i].state = "failed"

\* C27: the queue keeps no record of a completed job (it is in no list of
\* the queue and its data is gone) and at most REMOVE_ON_FAIL records of
\* permanently failed jobs, always the most recent ones: a new failure
\* enters the failed set as its newest record and only the oldest leave.
C27_RetentionBounded ==
    /\ [](/\ Len(failed) <= REMOVE_ON_FAIL
          /\ \A k \in DOMAIN failed : jobs[failed[k]].state = "failed"
          /\ \A i \in JobIds :
                jobs[i].state = "completed"
                    => /\ jobs[i].url = "removed"
                       /\ \A k \in DOMAIN wait : wait[k] # i
                       /\ \A k \in DOMAIN failed : failed[k] # i)
    /\ [][\A i \in 1..MaxJobs :
             FailsPermanentlyNow(i) =>
                /\ failed' # << >>
                /\ failed'[Len(failed')] = i
                /\ \A k \in 1..(Len(failed') - 1) :
                      failed'[k] = failed[Len(failed) - Len(failed') + 1 + k]]_vars

\* two jobs have failed for good and one has completed: the failed set
\* holds the later failure only
C27_Witness ==
    /\ Len(failed) = REMOVE_ON_FAIL
    /\ \E i \in JobIds : jobs[i].state = "completed"
    /\ \E i \in JobIds :
          /\ jobs[i].state = "failed"
          /\ \A k \in DOMAIN failed : failed[k] # i

\* C28: when the worker keeps taking the steps it can take, every job that
\* was added reaches Completed or FailedPermanently and is then neither
\* waiting nor in flight, however many jobs wait behind a full pool.
C28_EveryJobTerminates ==
    \A i \in 1..MaxJobs :
        (i \in JobIds) ~>
            (/\ i \in JobIds
             /\ jobs[i].state \in {"completed", "failed"}
             /\ \A k \in DOMAIN wait : wait[k] # i)

\* more jobs than slots were added and all of them are over, one of them
\* after a retry
C28_Witness ==
    /\ Len(jobs) > CONCURRENCY
    /\ wait = << >>
    /\ \A i \in JobIds : jobs[i].state \in {"completed", "failed"}
    /\ \E i \in JobIds : jobs[i].state = "failed"
    /\ \E i \in JobIds : jobs[i].state = "completed" /\ jobs[i].fetch = "ok"

(***************************************************************************)
(* A client that reads a table at rest page by page: one getMedia call per *)
(* page, with the same limit and filters.  Each call is a query of its own *)
(* and the database orders the rows of equal createdAt anew for each.      *)
(***************************************************************************)
\* the first request: page 1, totalPages is known from its meta
StartPaging(limit, type, search) ==
    /\ call = NoCall
    /\ Ceil(count(store, type, search), limit) <= MaxPage
    /\ call' = [fn |-> "paging", limit |-> limit, type |-> type,
                search |-> search, pages |-> << >>,
                totalPages |-> Ceil(count(store, type, search), limit)]
    /\ UNCHANGED <<jobs, wait, store, requests, cache, reads, submissions,
                   failed>>

\* the ids of the rows of a page, in the order of the response
Ids(data) == [k \in DOMAIN data |-> data[k].id]

\* the next page is fetched
FetchPage(tie) ==
    /\ call.fn = "paging"
    /\ Len(call.pages) < call.totalPages
    /\ call' = [call EXCEPT !.pages = Append(@,
                   Ids(getMedia(store,
                                [page |-> Len(call.pages) + 1,
                                 limit |-> call.limit, type |-> call.type,
                                 search |-> call.search], tie).data))]
    /\ UNCHANGED <<jobs, wait, store, requests, cache, reads, submissions,
                   failed>>

NextPaging ==
    \/ \E limit \in Limits, type \in {"", "image", "video"},
          search \in {"", "cat", "AT"} : StartPaging(limit, type, search)
    \/ \E tie \in {"heap", "reverse"} : FetchPage(tie)

SpecPaging == InitQuery /\ [][NextPaging]_vars

\* the places of the fetched pages that hold the row
PlacesOf(id) ==
    {<<p, k>> \in (1..MaxPage) \X (1..MaxRows) :
        /\ p \in DOMAIN call.pages
        /\ k \in DOMAIN call.pages[p]
        /\ call.pages[p][k] = id}

\* C30: once pages 1..totalPages of a table at rest have been fetched with
\* one limit and one filter, every matching row is on exactly one page, at
\* one place, and no other row is on any page, also when rows share their
\* createdAt.
C30_EveryRowOnce ==
    (call.fn = "paging" /\ Len(call.pages) = call.totalPages)
        => \A k \in DOMAIN store :
              Cardinality(PlacesOf(store[k].id)) =
                 IF Where(store[k], call.type, call.search) THEN 1 ELSE 0

(***************************************************************************)
(* The cached GET endpoints beside the worker.  CacheInterceptor looks the *)
(* key of the request up; on a hit it answers with the entry, on a miss it *)
(* runs the handler and stores the response under the key afterwards.  The *)
(* handlers run their queries of Promise.all one by one, in any order.     *)
(* getMedia is followed for the first page of the default query, by the    *)
(* mediaUrls of its data: the table of the queue model has fewer rows than *)
(* the default limit.                                                      *)
(***************************************************************************)
\* the queries of Promise.all in getStats and in getMedia
HandlerQueries(key) ==
    IF key = "/stats" THEN {"total", "images", "videos"}
    ELSE {"findMany", "count"}

CountType(rows, type) == Cardinality({k \in DOMAIN rows : rows[k].type = type})

\* one query against the table as it is now
RunQuery(q, rows) ==
    CASE q = "total" -> Len(rows)
      [] q = "images" -> CountType(rows, "image")
      [] q = "videos" -> CountType(rows, "video")
      [] q = "count" -> Len(rows)
      [] OTHER -> {rows[k].mediaUrl : k \in DOMAIN rows}

Unset(q) == IF q = "findMany" THEN {} ELSE 0

\* the rows of the table when every job added so far has completed an
\* attempt that wrote its batch and invalidated the cache, else 0
Settled ==
    IF JobIds # {} /\ \A i \in JobIds : /\ jobs[i].state = "completed"
                                        /\ jobs[i].fetch = "ok"
    THEN Len(store) ELSE 0

NewRead(key) ==
    [key |-> key, hit |-> cache[key].present, settled |-> Settled,
     pc |-> IF cache[key].present THEN "done" ELSE "handler",
     todo |-> IF cache[key].present THEN {} ELSE HandlerQueries(key),
     response |-> IF cache[key].present THEN cache[key].value
                  ELSE [q \in HandlerQueries(key) |-> Unset(q)]]

\* CacheInterceptor.intercept: cacheManager.get(key)
Intercept(key) ==
    /\ Len(reads) < MaxReads
    /\ reads' = Append(reads, NewRead(key))
    /\ UNCHANGED <<jobs, wait, store, requests, call, cache, submissions, failed>>

\* one query of the handler resolves
Query(r, q) ==
    /\ r \in DOMAIN reads
    /\ reads[r].pc = "handler"
    /\ q \in reads[r].todo
    /\ reads' = [reads EXCEPT
                    ![r].response[q] = RunQuery(q, store),
                    ![r].todo = @ \ {q},
                    ![r].pc = IF reads[r].todo = {q} THEN "set" ELSE "handler"]
    /\ UNCHANGED <<jobs, wait, store, requests, call, cache, submissions, failed>>

\* the response of the handler is stored under the key and sent
CacheSet(r) ==
    /\ r \in DOMAIN reads
    /\ reads[r].pc = "set"
    /\ cache' = [cache EXCEPT ![reads[r].key] =
                    [present |-> TRUE, value |-> reads[r].response]]
    /\ reads' = [reads EXCEPT ![r].pc = "done"]
    /\ UNCHANGED <<jobs, wait, store, requests, call, submissions, failed>>

\* the TTL of an entry runs out
Expire(key) ==
    /\ cache[key].present
    /\ cache' = [cache EXCEPT ![key] = NoEntry]
    /\ UNCHANGED <<jobs, wait, store, requests, call, reads, submissions, failed>>

Reader ==
    \/ \E key \in CacheKeys : Intercept(key)
    \/ \E r \in 1..MaxReads, q \in {"total", "images", "videos",
                                     "findMany", "count"} : Query(r, q)
    \/ \E r \in 1..MaxReads : CacheSet(r)
    \/ \E key \in CacheKeys : Expire(key)

NextRead ==
    \/ \E urls \in UrlLists : /\ Len(jobs) + Len(urls) <= MaxReadJobs
                               /\ QueueScraping(urls)
    \/ Worker
    \/ Reader

SpecRead == Init /\ [][NextRead]_vars

\* the rows a finished GET request answered with
RowsAnswered(read) ==
    IF read.key = "/stats" THEN read.response["total"]
    ELSE Cardinality(read.response["findMany"])

SuccessText(n) ==
    <<"Successfully", "queued", ToString(n), "URLs", "for", "scraping!">>

ErrorText == <<"Error", "submitting", "URLs", "for", "scraping">>

EmptyText == <<"Please", "enter", "at", "least", "one", "URL">>

\* mutation.isPending, the loading flag that disables the button
Loading == \E s \in DOMAIN submissions : submissions[s].api = "pending"

\* UrlForm.handleSubmit up to the await of handleScrape
HandleSubmit(urls) ==
    /\ Len(submissions) < MaxRequests
    /\ ~Loading
    /\ submissions' = Append(submissions,
           IF urls = << >>
           THEN [urls |-> urls, api |-> "none", pc |-> "done",
                 alerts |-> <<EmptyText>>]
           ELSE [urls |-> urls, api |-> "pending", pc |-> "await",
                 alerts |-> << >>])
    /\ UNCHANGED <<jobs, wait, store, requests, call, cache, reads, failed>>

\* mutation.mutate(urls): the request is started, nothing is returned and
\* nothing is thrown
mutate(urls) == Return("undefined", "")

\* the alert of handleScrape after its await: of the try block, or of the
\* catch when the awaited call threw
AlertOf(r, urls) ==
    IF r.tag = "throw" THEN ErrorText ELSE SuccessText(Len(urls))

\* handleScrape after await scrapeUrls(urls)
HandleScrapeResume(s) ==
    /\ s \in DOMAIN submissions
    /\ submissions[s].pc = "await"
    /\ submissions' = [submissions EXCEPT
          ![s].alerts = Append(@, AlertOf(mutate(submissions[s].urls),
                                          submissions[s].urls)),
          ![s].pc = IF mutate(submissions[s].urls).tag = "throw"
                    THEN "done" ELSE "timer"]
    /\ UNCHANGED <<jobs, wait, store, requests, call, cache, reads, failed>>

\* setTimeout(() => refetchStats(), 2000) fires
RefetchStats(s) ==
    /\ s \in DOMAIN submissions
    /\ submissions[s].pc = "timer"
    /\ submissions' = [submissions EXCEPT ![s].pc = "done"]
    /\ UNCHANGED <<jobs, wait, store, requests, call, cache, reads, failed>>

\* the request of the mutation settles: onSuccess or onError runs
ApiSettles(s, outcome) ==
    /\ s \in DOMAIN submissions
    /\ submissions[s].api = "pending"
    /\ submissions' = [submissions EXCEPT ![s].api = outcome]
    /\ UNCHANGED <<jobs, wait, store, requests, call, cache, reads, failed>>

NextPage ==
    \/ \E urls \in UrlLists : HandleSubmit(urls)
    \/ \E s \in 1..MaxRequests : HandleScrapeResume(s)
    \/ \E s \in 1..MaxRequests : RefetchStats(s)
    \/ \E s \in 1..MaxRequests, outcome \in {"ok", "rejected"} :
          ApiSettles(s, outcome)

SpecPage == Init /\ [][NextPage]_vars

\* C24: a submission of the scraper page whose request was rejected has
\* shown, once its handler has run to its end, an alert whose text contains
\* the word Error.
C24_FailureShowsErrorAlert ==
    \A s \in DOMAIN submissions :
        (submissions[s].api = "rejected" /\ submissions[s].pc = "done")
            => \E k \in DOMAIN submissions[s].alerts :
                  "Error" \in Range(submissions[s].alerts[k])

====
